---------------------------- MODULE Spec2Model ----------------------------
(***************************************************************************)
(* A model of the 5-card Kuhn poker solver (src/kuhn_poker_solver.py):     *)
(* the game engine, the strategy tables, the EV calculator, the            *)
(* probability updater, the equilibrium checker and the solve loop.        *)
(*                                                                         *)
(* Arithmetic.  The program computes in floating point; the model computes *)
(* in exact rational arithmetic.  A probability p is held as the integer   *)
(* p * Scale (hundredths), and an expected value ev of a deck of n cards   *)
(* as the integer ev * EVUnit(n), EVUnit(n) = n*(n-1)*Scale^3, so that     *)
(* every sum and comparison of the program is an exact integer one.        *)
(***************************************************************************)
EXTENDS Integers, Sequences, FiniteSets, TLC

VARIABLES
    pc,               \* the position of the operation under way
    n,                \* self.n, the deck size
    args,             \* the arguments of the operation under way
    result,           \* its return value
    p1_strat,         \* initialize_default_strategy: Player 1's table
    p2_strat,         \* initialize_default_strategy: Player 2's table
    step,             \* initialize_default_strategy: assignments done
    strategy_update,  \* update_probability: the table being updated
    rounds,           \* update_probability: rounds executed
    upd_counter,      \* update_probability: its local `counter'
    p1_temp,          \* solve: Player 1's working table
    p2_temp,          \* solve: Player 2's working table
    counter,          \* solve: the iteration counter
    equilibria_found, \* solve: records appended so far
    output_list,      \* solve: the records
    hand,             \* solve, check_equilibrium: the loop variable `hand'
    action_row,       \* solve, check_equilibrium: the loop variable `action'
    ev_1,             \* solve: Player 1's EV handed to check_equilibrium
    ev_2,             \* solve: Player 2's EV handed to check_equilibrium
    p1_best_response, \* check_equilibrium: Player 1's best response so far
    p2_best_response, \* check_equilibrium: Player 2's best response so far
    calls,            \* solve: the updater calls issued in this iteration
    heap,             \* the table objects: object id -> table
    refs,             \* the names bound to objects: name -> object id
    ip                \* the position in the program of calls under way

vars == <<pc, n, args, result, p1_strat, p2_strat, step, strategy_update,
          rounds, upd_counter, p1_temp, p2_temp, counter, equilibria_found,
          output_list, hand, action_row, ev_1, ev_2, p1_best_response,
          p2_best_response, calls, heap, refs, ip>>

(***************************************************************************)
(* Units                                                                   *)
(***************************************************************************)
\* Probabilities are held in hundredths: 0.01, the step and the threshold of
\* check_equilibrium, is 1, and 1.0 is Scale.
Scale == 100

\* The default deck size of every class of the program.
DefaultN == 5

EVUnit(nn) == nn * (nn - 1) * Scale * Scale * Scale

(***************************************************************************)
(* KuhnPokerEngine                                                         *)
(***************************************************************************)
\* player_1_action(action, stack_1, pot, iteration) -> <<stack_1, pot>>
player_1_action(action, stack_1, pot, iteration) ==
    IF iteration = 1
    THEN IF action = 1 THEN <<stack_1 - 1 - 1, pot + 1 + 1>>
                       ELSE <<stack_1 - 1, pot + 1>>
    ELSE IF iteration = 2
         THEN IF action = 2 THEN <<stack_1 - 1, pot + 1>>
                            ELSE <<stack_1, pot>>
         ELSE <<stack_1, pot>>

\* player_2_action(action, stack_2, pot, iteration) -> <<stack_2, pot>>
player_2_action_freecall(action, stack_2, pot, iteration) ==
    LET s == stack_2 - 1
        p == pot + 1
    IN  IF iteration = 1
        THEN IF action = 1 THEN <<s - 1, p + 1>> ELSE <<s, p>>
        ELSE IF iteration = 2
             THEN IF action = 2 THEN <<s, p + 1>> ELSE <<s, p>>
             ELSE <<s, p>>

player_2_action(action, stack_2, pot, iteration) ==
    LET s == stack_2 - 1
        p == pot + 1
    IN  IF iteration = 1
        THEN IF action = 1 THEN <<s - 1, p + 1>> ELSE <<s, p>>
        ELSE IF iteration = 2
             THEN IF action = 2 THEN <<s - 1, p + 1>> ELSE <<s, p>>
             ELSE <<s, p>>

\* showdown(stack_1, stack_2, hand_1, hand_2, pot) -> <<stack_1, stack_2>>
showdown_lowwins(stack_1, stack_2, hand_1, hand_2, pot) ==
    IF hand_1 < hand_2 THEN <<stack_1 + pot, stack_2>>
                       ELSE <<stack_1, stack_2 + pot>>

showdown(stack_1, stack_2, hand_1, hand_2, pot) ==
    IF hand_1 > hand_2 THEN <<stack_1 + pot, stack_2>>
                       ELSE <<stack_1, stack_2 + pot>>

\* run_game(action_1a, action_1b, action_2a, action_2b, hand_1, hand_2)
\* -> <<stack_1, stack_2>>
run_game(action_1a, action_1b, action_2a, action_2b, hand_1, hand_2) ==
    LET a == player_1_action(action_1a, 0, 0, 1)
        stack_1 == a[1]
        pot == a[2]
    IN  IF action_1a = 3
        THEN <<stack_1, 0 + pot>>
        ELSE IF action_1a = 2
        THEN LET b == player_2_action(action_2a, 0, pot, 1)
             IN  IF action_2a = 1
                 THEN LET c == player_1_action(action_1b, stack_1, b[2], 2)
                      IN  IF action_1b = 2
                          THEN showdown(c[1], b[1], hand_1, hand_2, c[2])
                          ELSE IF action_1b = 3
                               THEN <<c[1], b[1] + c[2]>>
                               ELSE <<c[1], b[1]>>
                 ELSE IF action_2a = 2
                      THEN showdown(stack_1, b[1], hand_1, hand_2, b[2])
                      ELSE <<stack_1, b[1]>>
        ELSE IF action_1a = 1
        THEN LET b == player_2_action(action_2b, 0, pot, 2)
             IN  IF action_2b = 2
                 THEN showdown(stack_1, b[1], hand_1, hand_2, b[2])
                 ELSE IF action_2b = 3
                      THEN <<stack_1 + b[2], b[1]>>
                      ELSE <<stack_1, b[1]>>
        ELSE <<stack_1, 0>>



(***************************************************************************)
(* Strategy tables: t[row][column], as DataFrame.iloc[row, column]         *)
(***************************************************************************)
Columns(nn) == 0 .. (nn - 1)

\* create_strategy_matrix: the all-zero tables, 5 x n and 4 x n.
create_strategy_matrix(nn) ==
    << [r \in 0..4 |-> [c \in Columns(nn) |-> 0]],
       [r \in 0..3 |-> [c \in Columns(nn) |-> 0]] >>

(***************************************************************************)
(* EVCalculator                                                            *)
(***************************************************************************)
\* One `if prob > 0: run_game(...); ev += prob_hands * prob * stack' block of
\* calculate_ev, for one player's accumulator: what the block adds to it.
\* weight is the path's probability times Scale^3 and stack the player's
\* payoff on the path.
ev_path_positive(weight, stack) ==
    IF weight > 0 /\ stack > 0 THEN weight * stack ELSE 0

ev_path(weight, stack) ==
    IF weight > 0 THEN weight * stack ELSE 0

\* The body of calculate_ev's double loop for one pair of distinct hands:
\* what it adds to the accumulator of `player' (ev_1 or ev_2).
ev_hands_nofold(strategy_1, strategy_2, hand_1, hand_2, player) ==
    LET hand_1_idx == hand_1 - 1
        hand_2_idx == hand_2 - 1
        prob_1_bet == strategy_1[0][hand_1_idx]
        prob_2_call == strategy_2[2][hand_2_idx]
        prob_2_fold == strategy_2[3][hand_2_idx]
        prob_1_check == strategy_1[1][hand_1_idx]
        prob_2_bet == strategy_2[0][hand_2_idx]
        prob_check_bet == prob_1_check * prob_2_bet
        prob_1_call == strategy_1[4][hand_1_idx]
        prob_2_check == strategy_2[1][hand_2_idx]
    IN  ev_path(Scale * prob_1_bet * prob_2_call,
                run_game(1, 0, 0, 2, hand_1, hand_2)[player])
        + ev_path(Scale * prob_1_bet * prob_2_fold,
                  run_game(1, 0, 0, 3, hand_1, hand_2)[player])
        + (IF prob_check_bet > 0
           THEN ev_path(prob_check_bet * prob_1_call,
                        run_game(2, 2, 1, 0, hand_1, hand_2)[player])
           ELSE 0)
        + ev_path(Scale * prob_1_check * prob_2_check,
                  run_game(2, 0, 2, 0, hand_1, hand_2)[player])

ev_hands(strategy_1, strategy_2, hand_1, hand_2, player) ==
    LET hand_1_idx == hand_1 - 1
        hand_2_idx == hand_2 - 1
        prob_1_bet == strategy_1[0][hand_1_idx]
        prob_2_call == strategy_2[2][hand_2_idx]
        prob_2_fold == strategy_2[3][hand_2_idx]
        prob_1_check == strategy_1[1][hand_1_idx]
        prob_2_bet == strategy_2[0][hand_2_idx]
        prob_check_bet == prob_1_check * prob_2_bet
        prob_1_call == strategy_1[4][hand_1_idx]
        prob_1_fold == strategy_1[3][hand_1_idx]
        prob_2_check == strategy_2[1][hand_2_idx]
    IN  ev_path(Scale * prob_1_bet * prob_2_call,
                run_game(1, 0, 0, 2, hand_1, hand_2)[player])
        + ev_path(Scale * prob_1_bet * prob_2_fold,
                  run_game(1, 0, 0, 3, hand_1, hand_2)[player])
        + (IF prob_check_bet > 0
           THEN ev_path(prob_check_bet * prob_1_call,
                        run_game(2, 2, 1, 0, hand_1, hand_2)[player])
                + ev_path(prob_check_bet * prob_1_fold,
                          run_game(2, 3, 1, 0, hand_1, hand_2)[player])
           ELSE 0)
        + ev_path(Scale * prob_1_check * prob_2_check,
                  run_game(2, 0, 2, 0, hand_1, hand_2)[player])

\* The inner loop `for hand_2 in range(1, n+1)' of one hand_1, from hand_2
\* on, with its `if hand_1 == hand_2: continue': what it adds to the
\* accumulator of `player'.
RECURSIVE ev_inner_loop(_, _, _, _, _, _)
ev_inner_loop(strategy_1, strategy_2, nn, hand_1, hand_2, player) ==
    IF hand_2 > nn
    THEN 0
    ELSE (IF hand_1 = hand_2
          THEN 0
          ELSE ev_hands(strategy_1, strategy_2, hand_1, hand_2, player))
         + ev_inner_loop(strategy_1, strategy_2, nn, hand_1, hand_2 + 1,
                         player)

\* The outer loop `for hand_1 in range(1, n+1)', from hand_1 on.
RECURSIVE ev_loop(_, _, _, _, _)
ev_loop(strategy_1, strategy_2, nn, hand_1, player) ==
    IF hand_1 > nn
    THEN 0
    ELSE ev_inner_loop(strategy_1, strategy_2, nn, hand_1, 1, player)
         + ev_loop(strategy_1, strategy_2, nn, hand_1 + 1, player)

\* calculate_ev(strategy_1, strategy_2) -> <<ev_1, ev_2>>, each times EVUnit(n):
\* prob_hands = 1/(n*(n-1)) is the unit's first factor.
calculate_ev(nn, strategy_1, strategy_2) ==
    << ev_loop(strategy_1, strategy_2, nn, 1, 1),
       ev_loop(strategy_1, strategy_2, nn, 1, 2) >>

(***************************************************************************)
(* Input tables                                                            *)
(***************************************************************************)
\* A valid Player 1 table from its two free rows: row0 (bet) and row3 (fold).
P1Table(nn, bet, fold) ==
    [r \in 0..4 |-> [c \in Columns(nn) |->
        CASE r = 0 -> bet[c]
          [] r = 1 -> Scale - bet[c]
          [] r = 2 -> 0
          [] r = 3 -> fold[c]
          [] r = 4 -> Scale - fold[c]]]

\* A valid Player 2 table from its two free rows: row0 (bet) and row2 (call).
P2Table(nn, bet, call) ==
    [r \in 0..3 |-> [c \in Columns(nn) |->
        CASE r = 0 -> bet[c]
          [] r = 1 -> Scale - bet[c]
          [] r = 2 -> call[c]
          [] r = 3 -> Scale - call[c]]]

\* A tuple <<v_0, ..., v_{n-1}>> as a function over the columns 0 .. n-1.
Row(seq) == [c \in 0 .. (Len(seq) - 1) |-> seq[c + 1]]

\* The values an input table's free cells are drawn from: pure and mixed
\* strategies for two cards, pure strategies for three.
ProbGrid(nn) == IF nn = 2 THEN {0, 30, Scale} ELSE {0, Scale}

TablesOver1(nn, grid) ==
    { P1Table(nn, b, f) : b \in [Columns(nn) -> grid],
                          f \in [Columns(nn) -> grid] }

TablesOver2(nn, grid) ==
    { P2Table(nn, b, c) : b \in [Columns(nn) -> grid],
                          c \in [Columns(nn) -> grid] }

GridTables1(nn) == TablesOver1(nn, ProbGrid(nn))
GridTables2(nn) == TablesOver2(nn, ProbGrid(nn))

\* A pair of 5-card tables close to an equilibrium (found by running the
\* solver): every exploitability is below the checker's threshold.
NearEquilibrium1 ==
    P1Table(5, Row(<<33, 0, 0, 0, 100>>), Row(<<100, 100, 0, 0, 0>>))

NearEquilibrium2 ==
    P2Table(5, Row(<<33, 0, 0, 100, 0>>), Row(<<0, 0, 99, 68, 100>>))

(***************************************************************************)
(* Unused parts of the state                                               *)
(***************************************************************************)
NoInitialize == p1_strat = <<>> /\ p2_strat = <<>> /\ step = 0
NoUpdate == strategy_update = <<>> /\ rounds = 0 /\ upd_counter = 0
NoSolve ==
    /\ p1_temp = <<>> /\ p2_temp = <<>> /\ counter = 0
    /\ equilibria_found = 0 /\ output_list = <<>> /\ hand = 0 /\ action_row = 0
    /\ ev_1 = 0 /\ ev_2 = 0 /\ p1_best_response = <<>>
    /\ p2_best_response = <<>> /\ calls = <<>>

NoOwnership == heap = <<>> /\ refs = <<>> /\ ip = 0

initVars == <<p1_strat, p2_strat, step>>
updateVars == <<strategy_update, rounds, upd_counter>>
solveVars == <<p1_temp, p2_temp, counter, equilibria_found, output_list,
               hand, action_row, ev_1, ev_2, p1_best_response, p2_best_response,
               calls>>
ownVars == <<heap, refs, ip>>

(***************************************************************************)
(* SpecGame: run_game applied to every argument tuple                      *)
(***************************************************************************)
InitGame ==
    /\ pc = "run_game"
    /\ NoOwnership
    /\ n = DefaultN
    /\ args \in [action_1a : 0..3, action_1b : 0..3, action_2a : 0..3,
                 action_2b : 0..3, hand_1 : 1..n, hand_2 : 1..n]
    /\ result = <<>>
    /\ NoInitialize /\ NoUpdate /\ NoSolve

RunGame ==
    /\ pc = "run_game"
    /\ result' = run_game(args.action_1a, args.action_1b, args.action_2a,
                          args.action_2b, args.hand_1, args.hand_2)
    /\ pc' = "run_game_returned"
    /\ UNCHANGED <<n, args, ownVars, initVars, updateVars, solveVars>>

NextGame == RunGame

SpecGame == InitGame /\ [][NextGame]_vars

\* The five terminal paths of the decision tree, by the arguments that
\* run_game reads on each.
BetCall(a) == a.action_1a = 1 /\ a.action_2b = 2
BetFold(a) == a.action_1a = 1 /\ a.action_2b = 3
CheckCheck(a) == a.action_1a = 2 /\ a.action_2a = 2
CheckBetCall(a) == a.action_1a = 2 /\ a.action_2a = 1 /\ a.action_1b = 2
CheckBetFold(a) == a.action_1a = 2 /\ a.action_2a = 1 /\ a.action_1b = 3
IsTreePath(a) ==
    BetCall(a) \/ BetFold(a) \/ CheckCheck(a) \/ CheckBetCall(a) \/ CheckBetFold(a)

\* C1: for every path through the decision tree and every pair of distinct
\* hands in 1..n, the two payoffs returned by run_game sum to exactly 0.
C1_ZeroSumPayoff ==
    (pc = "run_game_returned" /\ IsTreePath(args) /\ args.hand_1 # args.hand_2)
        => result[1] + result[2] = 0

\* C1 witness: run_game has returned on the check/bet/fold path with distinct
\* hands, Player 2 taking the pot.
C1_Witness ==
    /\ pc = "run_game_returned"
    /\ CheckBetFold(args)
    /\ args.hand_1 = 4 /\ args.hand_2 = 2
    /\ result = <<-1, 1>>

\* The payoffs <<won, -won>> seen from the holder of the higher card.
ToHigher(a, won) == IF a.hand_1 > a.hand_2 THEN <<won, -won>> ELSE <<-won, won>>

\* C2: for every pair of distinct hands, run_game returns the reference
\* payoffs of the five terminal paths: bet/call and check/bet/call give the
\* higher card's holder +2 and the other -2, check/check gives +1 and -1,
\* bet/fold gives (+1, -1) and check/bet/fold gives (-1, +1) whatever the cards.
C2_ReferencePayoffs ==
    (pc = "run_game_returned" /\ args.hand_1 # args.hand_2) =>
        /\ BetCall(args) => result = ToHigher(args, 2)
        /\ CheckCheck(args) => result = ToHigher(args, 1)
        /\ CheckBetCall(args) => result = ToHigher(args, 2)
        /\ BetFold(args) => result = <<1, -1>>
        /\ CheckBetFold(args) => result = <<-1, 1>>

\* C2 witness: run_game(1, 0, 0, 2, 5, 1) has returned (2, -2).
C2_Witness ==
    /\ pc = "run_game_returned"
    /\ args = [action_1a |-> 1, action_1b |-> 0, action_2a |-> 0,
               action_2b |-> 2, hand_1 |-> 5, hand_2 |-> 1]
    /\ result = <<2, -2>>

(***************************************************************************)
(* StrategyManager.initialize_default_strategy                             *)
(***************************************************************************)
\* The assignments of initialize_default_strategy in source order, each
\* <<table, row, column, value>>: table 1 is p1_strat, table 2 is p2_strat,
\* column -1 is the slice `:' (every column), values are in hundredths.
default_assignments_typo(nn) ==
    <<
       <<1, 4, nn - 1, 100>>, <<1, 3, nn - 1, 0>>, <<1, 4, 0, 0>>,
       <<1, 3, 0, 100>>, <<1, 2, -1, 0>>, <<1, 1, nn - 1, 0>>,
       <<1, 0, nn - 1, 100>>, <<1, 1, nn - 2, 0>>, <<1, 0, nn - 2, 100>>,
       <<1, 1, 2, 49>>, <<1, 0, 2, 51>>, <<1, 1, 1, 31>>,
       <<1, 0, 1, 69>>, <<1, 1, 0, 100>>, <<1, 0, 0, 0>>,
       <<1, 4, 3, 95>>, <<1, 3, 3, 5>>, <<1, 4, 2, 49>>,
       <<1, 3, 2, 52>>, <<1, 4, 1, 9>>, <<1, 3, 1, 91>>,
       <<2, 1, nn - 1, 100>>, <<2, 0, nn - 1, 0>>, <<2, 2, nn - 1, 100>>,
       <<2, 3, nn - 1, 0>>, <<2, 2, 0, 0>>, <<2, 3, 0, 100>>,
       <<2, 1, 3, 91>>, <<2, 0, 3, 9>>, <<2, 1, 2, 61>>,
       <<2, 0, 2, 39>>, <<2, 1, 1, 21>>, <<2, 0, 1, 79>>,
       <<2, 1, 0, 81>>, <<2, 0, 0, 19>>, <<2, 3, 3, 11>>,
       <<2, 2, 3, 89>>, <<2, 3, 2, 51>>, <<2, 2, 2, 49>>,
       <<2, 3, 1, 79>>, <<2, 2, 1, 21>>
    >>

default_assignments(nn) ==
    <<
       <<1, 4, nn - 1, 100>>, <<1, 3, nn - 1, 0>>, <<1, 4, 0, 0>>,
       <<1, 3, 0, 100>>, <<1, 2, -1, 0>>, <<1, 1, nn - 1, 0>>,
       <<1, 0, nn - 1, 100>>, <<1, 1, nn - 2, 0>>, <<1, 0, nn - 2, 100>>,
       <<1, 1, 2, 49>>, <<1, 0, 2, 51>>, <<1, 1, 1, 31>>,
       <<1, 0, 1, 69>>, <<1, 1, 0, 100>>, <<1, 0, 0, 0>>,
       <<1, 4, 3, 95>>, <<1, 3, 3, 5>>, <<1, 4, 2, 49>>,
       <<1, 3, 2, 51>>, <<1, 4, 1, 9>>, <<1, 3, 1, 91>>,
       <<2, 1, nn - 1, 100>>, <<2, 0, nn - 1, 0>>, <<2, 2, nn - 1, 100>>,
       <<2, 3, nn - 1, 0>>, <<2, 2, 0, 0>>, <<2, 3, 0, 100>>,
       <<2, 1, 3, 91>>, <<2, 0, 3, 9>>, <<2, 1, 2, 61>>,
       <<2, 0, 2, 39>>, <<2, 1, 1, 21>>, <<2, 0, 1, 79>>,
       <<2, 1, 0, 81>>, <<2, 0, 0, 19>>, <<2, 3, 3, 11>>,
       <<2, 2, 3, 89>>, <<2, 3, 2, 51>>, <<2, 2, 2, 49>>,
       <<2, 3, 1, 79>>, <<2, 2, 1, 21>>
    >>

\* One assignment `strat.iloc[row, column] = value' applied to a table.
assign(table, a) ==
    IF a[3] = -1
    THEN [table EXCEPT ![a[2]] = [c \in DOMAIN table[a[2]] |-> a[4]]]
    ELSE [table EXCEPT ![a[2]][a[3]] = a[4]]

\* iloc raises IndexError for a column the table does not have.
in_bounds(nn, a) == a[3] = -1 \/ a[3] \in Columns(nn)

\* The value the first k assignments leave in a cell: that of the last of
\* them to the cell or to its whole row, the 0.0 of create_strategy_matrix
\* when there is none.
cell_after(nn, k, table, row, column) ==
    LET writes == {i \in 1 .. k :
                    /\ default_assignments(nn)[i][1] = table
                    /\ default_assignments(nn)[i][2] = row
                    /\ default_assignments(nn)[i][3] \in {-1, column}}
    IN  IF writes = {}
        THEN create_strategy_matrix(nn)[table][row][column]
        ELSE default_assignments(nn)[CHOOSE i \in writes :
                                        \A j \in writes : j <= i][4]

\* The tables after the first k assignments.
strategies_after(nn, k) ==
    << [row \in 0 .. 4 |->
            [column \in Columns(nn) |-> cell_after(nn, k, 1, row, column)]],
       [row \in 0 .. 3 |->
            [column \in Columns(nn) |-> cell_after(nn, k, 2, row, column)]] >>

\* initialize_default_strategy() -> <<p1_strat, p2_strat>>, for a deck on
\* which no assignment is out of bounds.
initialize_default_strategy(nn) ==
    strategies_after(nn, Len(default_assignments(nn)))

(***************************************************************************)
(* SpecInit: initialize_default_strategy, one assignment at a time         *)
(***************************************************************************)
InitDeckSizes == {3, 4, 5, 6}

InitInitialize ==
    /\ pc = "initialize"
    /\ NoOwnership
    /\ n \in InitDeckSizes
    /\ args = <<>>
    /\ result = <<>>
    /\ p1_strat = create_strategy_matrix(n)[1]
    /\ p2_strat = create_strategy_matrix(n)[2]
    /\ step = 0
    /\ NoUpdate /\ NoSolve

Assign ==
    /\ pc = "initialize"
    /\ step < Len(default_assignments(n))
    /\ LET a == default_assignments(n)[step + 1]
       IN  /\ in_bounds(n, a)
           /\ IF a[1] = 1
              THEN p1_strat' = assign(p1_strat, a) /\ UNCHANGED p2_strat
              ELSE p2_strat' = assign(p2_strat, a) /\ UNCHANGED p1_strat
    /\ step' = step + 1
    /\ UNCHANGED <<pc, n, args, ownVars, result, updateVars, solveVars>>

AssignIndexError ==
    /\ pc = "initialize"
    /\ step < Len(default_assignments(n))
    /\ ~in_bounds(n, default_assignments(n)[step + 1])
    /\ pc' = "IndexError"
    /\ UNCHANGED <<n, args, ownVars, result, initVars, updateVars, solveVars>>

InitializeReturn ==
    /\ pc = "initialize"
    /\ step = Len(default_assignments(n))
    /\ result' = <<p1_strat, p2_strat>>
    /\ pc' = "initialize_returned"
    /\ UNCHANGED <<n, args, ownVars, initVars, updateVars, solveVars>>

NextInit == Assign \/ AssignIndexError \/ InitializeReturn

SpecInit == InitInitialize /\ [][NextInit]_vars

\* C7: the tables produced by initialize_default_strategy (for the 5-card
\* deck) encode the boundary fixed points: Player 1 with the lowest card has
\* row4 = 0 and row3 = 1 and with the highest card row3 = 0 and row4 = 1;
\* Player 2 with the lowest card has row2 = 0 and row3 = 1 and with the highest
\* card always bets and calls: row0 = 1, row1 = 0, row2 = 1, row3 = 0 (row0
\* being the bet-after-check probability that calculate_ev reads).
C7_BoundaryFixedPoints ==
    (pc = "initialize_returned" /\ n = DefaultN) =>
        /\ result[1][4][0] = 0 /\ result[1][3][0] = Scale
        /\ result[1][3][n - 1] = 0 /\ result[1][4][n - 1] = Scale
        /\ result[2][2][0] = 0 /\ result[2][3][0] = Scale
        /\ result[2][0][n - 1] = Scale /\ result[2][1][n - 1] = 0
        /\ result[2][2][n - 1] = Scale /\ result[2][3][n - 1] = 0

\* Every entry of a table is a probability.
InUnitRange(table) ==
    \A r \in DOMAIN table : \A c \in DOMAIN table[r] :
        table[r][c] >= 0 /\ table[r][c] <= Scale

\* Rows ra and rb of a table sum to 1 in every column.
PairSumsToOne(table, ra, rb) ==
    \A c \in DOMAIN table[ra] : table[ra][c] + table[rb][c] = Scale

ValidP1(table) ==
    /\ InUnitRange(table)
    /\ PairSumsToOne(table, 0, 1)
    /\ PairSumsToOne(table, 3, 4)

ValidP2(table) ==
    /\ InUnitRange(table)
    /\ PairSumsToOne(table, 0, 1)
    /\ PairSumsToOne(table, 2, 3)

\* C8: for the tables produced by initialize_default_strategy with n = 5, in
\* every column Player 1 has row0 + row1 = 1, row3 + row4 = 1 and row2 = 0,
\* Player 2 has row0 + row1 = 1 and row2 + row3 = 1, and every entry is in
\* [0, 1].
C8_DefaultTablesValid ==
    (pc = "initialize_returned" /\ n = 5) =>
        /\ ValidP1(result[1])
        /\ \A c \in Columns(n) : result[1][2][c] = 0
        /\ ValidP2(result[2])

\* C8 witness: initialize_default_strategy has returned for n = 5, with the
\* mixed entries of card 3 in place.
C8_Witness ==
    /\ pc = "initialize_returned" /\ n = 5
    /\ result[1][0][2] = 51 /\ result[1][3][2] = 51 /\ result[2][2][2] = 49

(***************************************************************************)
(* SpecEV: calculate_ev applied to valid tables                            *)
(***************************************************************************)
\* The 5-card tables given to calculate_ev and to solve: the default tables
\* and a pair close to an equilibrium.
Tables1 == {initialize_default_strategy(DefaultN)[1], NearEquilibrium1}
Tables2 == {initialize_default_strategy(DefaultN)[2], NearEquilibrium2}

InitEV ==
    /\ pc = "calculate_ev"
    /\ NoOwnership
    /\ n \in {2, 3, DefaultN}
    /\ args \in [strategy_1 : IF n = DefaultN THEN Tables1 ELSE GridTables1(n),
                 strategy_2 : IF n = DefaultN THEN Tables2 ELSE GridTables2(n)]
    /\ result = <<>>
    /\ NoInitialize /\ NoUpdate /\ NoSolve

CalculateEV ==
    /\ pc = "calculate_ev"
    /\ result' = calculate_ev(n, args.strategy_1, args.strategy_2)
    /\ pc' = "calculate_ev_returned"
    /\ UNCHANGED <<n, args, ownVars, initVars, updateVars, solveVars>>

NextEV == CalculateEV

SpecEV == InitEV /\ [][NextEV]_vars

\* C3: for any pair of valid strategy tables the two values returned by
\* calculate_ev satisfy ev1 + ev2 = 0 in exact arithmetic.
C3_ZeroSumEV ==
    (pc = "calculate_ev_returned"
        /\ ValidP1(args.strategy_1) /\ ValidP2(args.strategy_2))
        => result[1] + result[2] = 0

\* C3 witness: calculate_ev has returned for the default 5-card tables, with
\* ev1 = -0.0316302 (times EVUnit(5)) and ev2 its opposite.
C3_Witness ==
    /\ pc = "calculate_ev_returned"
    /\ n = DefaultN
    /\ args.strategy_1 = initialize_default_strategy(DefaultN)[1]
    /\ args.strategy_2 = initialize_default_strategy(DefaultN)[2]
    /\ result = <<-632604, 632604>>

\* The sum of the function f over the finite set S.
RECURSIVE SumOver(_, _)
SumOver(S, f) ==
    IF S = {} THEN 0
    ELSE LET x == CHOOSE y \in S : TRUE
         IN  f[x] + SumOver(S \ {x}, f)

\* The reference expectation of a player (1 or 2), times EVUnit(n): the sum
\* over all ordered pairs of distinct cards and all five terminal paths of
\* path weight times run_game payoff, no path skipped.
ReferenceEV(nn, s1, s2, player) ==
    LET term(h) ==
            LET i == h[1] - 1
                j == h[2] - 1
            IN  Scale * s1[0][i] * s2[2][j]
                    * run_game(1, 0, 0, 2, h[1], h[2])[player]
                + Scale * s1[0][i] * s2[3][j]
                    * run_game(1, 0, 0, 3, h[1], h[2])[player]
                + Scale * s1[1][i] * s2[1][j]
                    * run_game(2, 0, 2, 0, h[1], h[2])[player]
                + s1[1][i] * s2[0][j] * s1[4][i]
                    * run_game(2, 2, 1, 0, h[1], h[2])[player]
                + s1[1][i] * s2[0][j] * s1[3][i]
                    * run_game(2, 3, 1, 0, h[1], h[2])[player]
        pairs == {h \in (1..nn) \X (1..nn) : h[1] # h[2]}
    IN  SumOver(pairs, [h \in pairs |-> term(h)])

\* C4: for every pair of valid strategy tables calculate_ev returns exactly
\* the reference expectation; skipping the paths of weight zero (and both
\* check/bet paths when P(check) * P(P2 bet) is zero) never changes the result.
C4_EqualsReference ==
    (pc = "calculate_ev_returned"
        /\ ValidP1(args.strategy_1) /\ ValidP2(args.strategy_2))
        => /\ result[1] = ReferenceEV(n, args.strategy_1, args.strategy_2, 1)
           /\ result[2] = ReferenceEV(n, args.strategy_1, args.strategy_2, 2)

\* C4 witness: calculate_ev has returned a non-zero expectation for tables
\* under which it skipped a bet/call path (weight zero) and both check/bet
\* paths of some pair of hands (P(check) * P(P2 bet) zero), while summing the
\* check/bet/fold path of another pair.
C4_Witness ==
    /\ pc = "calculate_ev_returned"
    /\ result[1] # 0
    /\ \E h1, h2 \in 1..n :
          /\ h1 # h2
          /\ args.strategy_1[0][h1 - 1] * args.strategy_2[2][h2 - 1] = 0
          /\ args.strategy_1[1][h1 - 1] * args.strategy_2[0][h2 - 1] = 0
    /\ \E h1, h2 \in 1..n :
          /\ h1 # h2
          /\ args.strategy_1[1][h1 - 1] * args.strategy_2[0][h2 - 1]
                * args.strategy_1[3][h1 - 1] > 0

(***************************************************************************)
(* ProbabilityUpdater                                                      *)
(***************************************************************************)
\* The number update_probability gives a candidate pinned at an occupied
\* bound in place of its EV.
Sentinel == -9999

\* The values update_probability compares: an EV computed by calculate_ev,
\* held as v = ev * EVUnit(n), or a number of the source text, held as it is.
computed(x) == [exact |-> FALSE, v |-> x]
literal(m) == [exact |-> TRUE, v |-> m]

\* a > b, exactly: x > m * U  iff  -((-x) \div U) > m, and
\* m * U > x  iff  (x \div U) < m, for integers x, m and U > 0.
gt(nn, a, b) ==
    IF a.exact = b.exact
    THEN a.v > b.v
    ELSE IF a.exact
         THEN (b.v \div EVUnit(nn)) < a.v
         ELSE (0 - ((0 - a.v) \div EVUnit(nn))) > b.v

ge(nn, a, b) == ~gt(nn, b, a)

\* The arguments of one update_probability call, but for strategy_update.
UpdateArgs(nn, k, strategy_fixed, row1, column, row2, player, epsilon) ==
    [n |-> nn, k |-> k, strategy_fixed |-> strategy_fixed, row1 |-> row1,
     column |-> column, row2 |-> row2, player |-> player, epsilon |-> epsilon]

\* The EV of the player who does not own the table.
player_ev_opponent(c, table) ==
    calculate_ev(c.n,
                 IF c.player = 1 THEN table ELSE c.strategy_fixed,
                 IF c.player = 1 THEN c.strategy_fixed ELSE table)[3 - c.player]

\* `if player == 1: ev, _ = calculate_ev(table, strategy_fixed)
\*  else: _, ev = calculate_ev(strategy_fixed, table)'
player_ev(c, table) ==
    calculate_ev(c.n,
                 IF c.player = 1 THEN table ELSE c.strategy_fixed,
                 IF c.player = 1 THEN c.strategy_fixed ELSE table)[c.player]

\* strategy_increase of one round without the clamp at 1.0.
increase_unclamped(c, su) ==
    [su EXCEPT ![c.row1][c.column] = su[c.row1][c.column] + c.epsilon,
               ![c.row2][c.column] = Scale - (su[c.row1][c.column] + c.epsilon)]

\* strategy_increase of one round.
increase(c, su) ==
    IF su[c.row1][c.column] + c.epsilon >= Scale
    THEN [su EXCEPT ![c.row1][c.column] = Scale, ![c.row2][c.column] = 0]
    ELSE [su EXCEPT ![c.row1][c.column] = su[c.row1][c.column] + c.epsilon,
                    ![c.row2][c.column] =
                        Scale - (su[c.row1][c.column] + c.epsilon)]

\* strategy_decrease of one round.
decrease(c, su) ==
    IF su[c.row1][c.column] - c.epsilon <= 0
    THEN [su EXCEPT ![c.row1][c.column] = 0, ![c.row2][c.column] = Scale]
    ELSE [su EXCEPT ![c.row1][c.column] = su[c.row1][c.column] - c.epsilon,
                    ![c.row2][c.column] =
                        Scale - (su[c.row1][c.column] - c.epsilon)]

\* What one round returns when the EV kept is the one of an improving
\* increase candidate.
round_result_last_ev(ev_initial, ev_increase, ev_decrease, strategy, stop) ==
    [ev_initial |-> IF ~ev_increase.exact /\ ev_increase.v > ev_initial.v
                    THEN ev_increase ELSE ev_initial,
     ev_increase |-> ev_increase, ev_decrease |-> ev_decrease,
     strategy_update |-> strategy, stop |-> stop]

\* What one round returns: the three EVs, the table the round leaves in
\* strategy_update, and whether the round ends with the
\* `ev_initial >= ev_increase and ev_initial >= ev_decrease' break.
round_result(ev_initial, ev_increase, ev_decrease, strategy, stop) ==
    [ev_initial |-> ev_initial, ev_increase |-> ev_increase,
     ev_decrease |-> ev_decrease, strategy_update |-> strategy, stop |-> stop]

\* The comparisons of one round with the two moves exchanged.
update_moves_swapped(c, su, strategy_increase, strategy_decrease, ev_initial, ev_increase, ev_decrease) ==
    round_result(ev_initial, ev_increase, ev_decrease,
                 IF gt(c.n, ev_increase, ev_decrease)
                    /\ gt(c.n, ev_increase, ev_initial)
                 THEN strategy_decrease
                 ELSE IF gt(c.n, ev_decrease, ev_increase)
                        /\ gt(c.n, ev_decrease, ev_initial)
                      THEN strategy_increase
                      ELSE su,
                 ge(c.n, ev_initial, ev_increase)
                    /\ ge(c.n, ev_initial, ev_decrease))

\* The comparisons of one round with a break that looks at the increase
\* candidate alone.
update_moves_stop_on_increase(c, su, strategy_increase, strategy_decrease, ev_initial, ev_increase, ev_decrease) ==
    round_result(ev_initial, ev_increase, ev_decrease,
                 IF gt(c.n, ev_increase, ev_decrease)
                    /\ gt(c.n, ev_increase, ev_initial)
                 THEN strategy_increase
                 ELSE IF gt(c.n, ev_decrease, ev_increase)
                        /\ gt(c.n, ev_decrease, ev_initial)
                      THEN strategy_decrease
                      ELSE su,
                 ge(c.n, ev_initial, ev_increase))

\* The comparisons of one round, the candidate tables and their EVs given.
update_moves(c, su, strategy_increase, strategy_decrease, ev_initial, ev_increase, ev_decrease) ==
    round_result(ev_initial, ev_increase, ev_decrease,
                 IF gt(c.n, ev_increase, ev_decrease)
                    /\ gt(c.n, ev_increase, ev_initial)
                 THEN strategy_increase
                 ELSE IF gt(c.n, ev_decrease, ev_increase)
                        /\ gt(c.n, ev_decrease, ev_initial)
                      THEN strategy_decrease
                      ELSE su,
                 ge(c.n, ev_initial, ev_increase)
                    /\ ge(c.n, ev_initial, ev_decrease))

\* The EVs of one round, the candidate tables given: a candidate that is the
\* table itself at its bound gets the literal -9999 instead of an EV.
update_evs(c, su, strategy_increase, strategy_decrease) ==
    update_moves(c, su, strategy_increase, strategy_decrease,
        computed(player_ev(c, su)),
        IF strategy_increase[c.row1][c.column] = su[c.row1][c.column]
            /\ strategy_increase[c.row1][c.column] = Scale
        THEN literal(Sentinel)
        ELSE computed(player_ev(c, strategy_increase)),
        IF strategy_decrease[c.row1][c.column] = su[c.row1][c.column]
            /\ strategy_decrease[c.row1][c.column] = 0
        THEN literal(Sentinel)
        ELSE computed(player_ev(c, strategy_decrease)))

\* One round of update_probability's loop on the table su.
update_round(c, su) ==
    update_evs(c, su, increase(c, su), decrease(c, su))

\* The loop `for _ in range(k)' from its round i (0-based) on, cnt being the
\* local `counter'; returns <<ev_initial, strategy_update>> of the last round.
RECURSIVE update_loop(_, _, _, _, _)
update_loop(c, su, i, cnt, ev_last) ==
    IF i >= c.k
    THEN <<ev_last, su>>
    ELSE CHOOSE returned \in
            { IF cnt = c.k \/ r.stop
              THEN <<r.ev_initial.v, r.strategy_update>>
              ELSE update_loop(c, r.strategy_update, i + 1, cnt + 1,
                               r.ev_initial.v) :
              r \in {update_round(c, su)} } : TRUE

\* update_probability(n, k, strategy_update, strategy_fixed, row1, column,
\* row2, player, epsilon) -> <<ev_initial, strategy_update>>.  With k = 0 the
\* loop body never runs and ev_initial is unbound.
update_probability(c, strategy) ==
    update_loop(c, strategy, 0, 0, "UnboundLocalError")

(***************************************************************************)
(* SpecUpdate: update_probability, one round at a time                     *)
(***************************************************************************)
\* The primary rows of a player's table; the complement is the next row.
PrimaryRows(player) == IF player = 1 THEN {0, 3} ELSE {0, 2}

\* The calls: every cell of every valid 2-card table over the grid, against
\* every pure opponent table, for one round; and every cell of the 5-card
\* tables for 1, 3 and 9999 rounds.
UpdateOwn1(nn) == IF nn = 2 THEN GridTables1(2) ELSE Tables1
UpdateOwn2(nn) == IF nn = 2 THEN GridTables2(2) ELSE Tables2
UpdateFixed1(nn) == IF nn = 2 THEN TablesOver1(2, {0, Scale}) ELSE Tables1
UpdateFixed2(nn) == IF nn = 2 THEN TablesOver2(2, {0, Scale}) ELSE Tables2
UpdateSteps(nn) == IF nn = 2 THEN {1, 30, Scale} ELSE {1, 30}
UpdateRounds(nn) == IF nn = 2 THEN {1} ELSE {1, 3, 9999}

InitUpdate ==
    /\ pc = "update_probability"
    /\ NoOwnership
    /\ n \in {2, DefaultN}
    /\ \E player \in {1, 2} :
        \E row1 \in PrimaryRows(player), column \in Columns(n),
           epsilon \in UpdateSteps(n), k \in UpdateRounds(n),
           t1 \in IF player = 1 THEN UpdateOwn1(n) ELSE UpdateFixed1(n),
           t2 \in IF player = 2 THEN UpdateOwn2(n) ELSE UpdateFixed2(n) :
            args = [c |-> UpdateArgs(n, k, IF player = 1 THEN t2 ELSE t1,
                                     row1, column, row1 + 1, player, epsilon),
                    strategy_update |-> IF player = 1 THEN t1 ELSE t2]
    /\ result = <<>>
    /\ strategy_update = args.strategy_update
    /\ rounds = 0
    /\ upd_counter = 0
    /\ NoInitialize /\ NoSolve

\* One round of the loop; the round that breaks, or the last of range(k),
\* returns.
UpdateRound ==
    /\ pc = "update_probability"
    /\ rounds < args.c.k
    /\ \E r \in {update_round(args.c, strategy_update)} :
           /\ strategy_update' = r.strategy_update
           /\ result' = <<r.ev_initial.v, r.strategy_update>>
           /\ rounds' = rounds + 1
           /\ IF upd_counter = args.c.k \/ r.stop
              THEN pc' = "update_probability_returned" /\ UNCHANGED upd_counter
              ELSE /\ upd_counter' = upd_counter + 1
                   /\ pc' = IF rounds + 1 < args.c.k
                            THEN "update_probability"
                            ELSE "update_probability_returned"
    /\ UNCHANGED <<n, args, ownVars, initVars, solveVars>>

NextUpdate == UpdateRound

SpecUpdate == InitUpdate /\ [][NextUpdate]_vars

\* The loop, run round by round, returns what update_probability returns.
UpdateLoopAgrees ==
    pc = "update_probability_returned"
        => result = update_probability(args.c, args.strategy_update)

\* C5: for every valid pair of tables, every cell with its complement row,
\* either player and every step > 0, a single round of update_probability
\* (max_steps = 1) returns a table under which the owning player's EV against
\* the unchanged opponent table is at least that player's EV under the table
\* passed in.
C5_SingleRoundNeverRegresses ==
    (pc = "update_probability_returned" /\ args.c.k = 1)
        => player_ev(args.c, result[2]) >= player_ev(args.c, args.strategy_update)

\* C5 witness: a single round has returned a different table, of strictly
\* greater EV for its owner.
C5_Witness ==
    /\ pc = "update_probability_returned" /\ args.c.k = 1
    /\ result[2] # args.strategy_update
    /\ player_ev(args.c, result[2]) > player_ev(args.c, args.strategy_update)

(***************************************************************************)
(* SpecSolve: EquilibriumSolver.solve and check_equilibrium, one updater   *)
(* call of a sweep, or one round of a best-response call, at a time        *)
(***************************************************************************)
MaxIterations == 3
MaxCheckFrequency == 2

\* check_equilibrium's epsilon_threshold = 0.01, its updater step 0.01 and
\* its updater budget k = 9999.
EpsilonThreshold == 1
BestResponseStep == 1
BestResponseRounds == 9999

\* Starting tables for decks the default initializer cannot fill (3 and 4
\* cards): every free cell one half, Player 1's fold row 1 at the lowest and
\* 0 at the highest card, Player 2's call row 0 at the lowest card.
HalfTable1(nn) ==
    P1Table(nn, [c \in Columns(nn) |-> 50],
                [c \in Columns(nn) |->
                    IF c = 0 THEN Scale ELSE IF c = nn - 1 THEN 0 ELSE 50])

HalfTable2(nn) ==
    P2Table(nn, [c \in Columns(nn) |-> 50],
                [c \in Columns(nn) |-> IF c = 0 THEN 0 ELSE 50])

\* The pairs <<p1_start, p2_start>> solve is started from.
StartTables(nn) ==
    IF nn = DefaultN
    THEN {initialize_default_strategy(DefaultN),
          <<NearEquilibrium1, NearEquilibrium2>>}
    ELSE {<<HalfTable1(nn), HalfTable2(nn)>>}

SolveDeckSizes == {3, 4, DefaultN}
SolveSteps(nn) == IF nn = DefaultN THEN {1, 2} ELSE {1}

\* The state after lines 512-523: the working copies, counter = 1 and no
\* record.
InitSolve ==
    /\ pc = "while"
    /\ NoOwnership
    /\ n \in SolveDeckSizes
    /\ \E start \in StartTables(n), epsilon \in SolveSteps(n),
          max_iterations \in 0 .. MaxIterations,
          check_frequency \in 1 .. MaxCheckFrequency :
            args = [p1_start |-> start[1], p2_start |-> start[2],
                    max_iterations |-> max_iterations, epsilon |-> epsilon,
                    check_frequency |-> check_frequency]
    /\ result = <<>>
    /\ output_list = <<>>
    /\ p1_temp = args.p1_start
    /\ p2_temp = args.p2_start
    /\ counter = 1
    /\ equilibria_found = 0
    /\ hand = 0 /\ action_row = 0 /\ ev_1 = 0 /\ ev_2 = 0
    /\ p1_best_response = <<>> /\ p2_best_response = <<>> /\ calls = <<>>
    /\ NoInitialize /\ NoUpdate

\* The arguments of a sweep's updater call: k = 1, the step epsilon.
SweepArgs(strategy_fixed, player) ==
    UpdateArgs(n, 1, strategy_fixed, action_row, hand, action_row + 1, player,
               args.epsilon)

\* `while counter <= max_iterations:' entered: the first sweep starts.
WhileEnter ==
    /\ pc = "while"
    /\ counter <= args.max_iterations
    /\ pc' = "stage1"
    /\ hand' = 0
    /\ action_row' = 0
    /\ calls' = <<>>
    /\ UNCHANGED <<n, args, ownVars, result, initVars, updateVars, p1_temp, p2_temp,
                   counter, equilibria_found, output_list, ev_1, ev_2,
                   p1_best_response, p2_best_response>>

\* The loop condition fails: `return output_list'.
WhileExit ==
    /\ pc = "while"
    /\ counter > args.max_iterations
    /\ pc' = "returned"
    /\ result' = output_list
    /\ UNCHANGED <<n, args, ownVars, initVars, updateVars, solveVars>>

\* Stage 1, `for hand in range(self.n)' with action = 0: neither skip
\* condition (action == 3) can hold, so every hand is updated.
Stage1Update ==
    /\ pc = "stage1"
    /\ ~(hand = 0 /\ action_row = 3)
    /\ ~(hand = n - 1 /\ action_row = 3)
    /\ p1_temp' = update_probability(SweepArgs(p2_temp, 1), p1_temp)[2]
    /\ calls' = Append(calls, <<1, action_row, hand>>)
    /\ IF hand + 1 < n
       THEN hand' = hand + 1 /\ UNCHANGED <<pc, action_row>>
       ELSE pc' = "player2" /\ hand' = 0 /\ action_row' = 0
    /\ UNCHANGED <<n, args, ownVars, result, initVars, updateVars, p2_temp, counter,
                   equilibria_found, output_list, ev_1, ev_2,
                   p1_best_response, p2_best_response>>

\* The cell after <<hand, action>> in `for hand in range(4): for action in
\* [0, 2]', and the Player 1 stage 3 sweep after the last one.
Player2Advance ==
    IF action_row = 0
    THEN action_row' = 2 /\ UNCHANGED <<pc, hand>>
    ELSE IF hand + 1 < 4
         THEN hand' = hand + 1 /\ action_row' = 0 /\ UNCHANGED pc
         ELSE pc' = "stage3" /\ hand' = 0 /\ action_row' = 3

\* Player 2's sweep, a cell that is not skipped and lies inside the table.
Player2Update ==
    /\ pc = "player2"
    /\ ~(hand = 0 /\ action_row = 2)
    /\ hand < n
    /\ p2_temp' = update_probability(SweepArgs(p1_temp, 2), p2_temp)[2]
    /\ calls' = Append(calls, <<2, action_row, hand>>)
    /\ Player2Advance
    /\ UNCHANGED <<n, args, ownVars, result, initVars, updateVars, p1_temp, counter,
                   equilibria_found, output_list, ev_1, ev_2,
                   p1_best_response, p2_best_response>>

\* `if hand == 0 and action == 2: continue'.
Player2Skip ==
    /\ pc = "player2"
    /\ hand = 0 /\ action_row = 2
    /\ Player2Advance
    /\ UNCHANGED <<n, args, ownVars, result, initVars, updateVars, p1_temp, p2_temp,
                   counter, equilibria_found, output_list, ev_1, ev_2,
                   p1_best_response, p2_best_response, calls>>

\* Player 2's sweep runs over range(4) whatever the deck: with fewer than 4
\* cards, update_probability reads strategy_increase.iloc[row1, column] at a
\* column the table does not have, and solve ends with an IndexError.
Player2IndexError ==
    /\ pc = "player2"
    /\ ~(hand = 0 /\ action_row = 2)
    /\ hand >= n
    /\ pc' = "IndexError"
    /\ UNCHANGED <<n, args, ownVars, result, initVars, updateVars, solveVars>>

\* The hand after `hand' in stage 3, and the equilibrium test after the last.
Stage3Advance ==
    IF hand + 1 < n
    THEN hand' = hand + 1 /\ UNCHANGED pc
    ELSE pc' = "check_test" /\ hand' = 0

\* Stage 3, `for hand in range(self.n)' with action = 3.
Stage3Update ==
    /\ pc = "stage3"
    /\ ~(hand = 0 /\ action_row = 3)
    /\ ~(hand = n - 1 /\ action_row = 3)
    /\ p1_temp' = update_probability(SweepArgs(p2_temp, 1), p1_temp)[2]
    /\ calls' = Append(calls, <<1, action_row, hand>>)
    /\ Stage3Advance
    /\ UNCHANGED <<n, args, ownVars, result, initVars, updateVars, p2_temp, counter,
                   equilibria_found, output_list, action_row, ev_1, ev_2,
                   p1_best_response, p2_best_response>>

\* `if hand == 0 and action == 3: continue' and its elif for hand == n - 1.
Stage3Skip ==
    /\ pc = "stage3"
    /\ (hand = 0 /\ action_row = 3) \/ (hand = n - 1 /\ action_row = 3)
    /\ Stage3Advance
    /\ UNCHANGED <<n, args, ownVars, result, initVars, updateVars, p1_temp, p2_temp,
                   counter, equilibria_found, output_list, action_row, ev_1,
                   ev_2, p1_best_response, p2_best_response, calls>>

\* The condition with the remainder off by one.
check_due_off_by_one(cnt, check_frequency) ==
    cnt > 5000 \/ cnt % check_frequency = 1

\* `counter > 5000 or counter % check_frequency == 0'.
check_due(cnt, check_frequency) ==
    cnt > 5000 \/ cnt % check_frequency = 0

\* `if counter > 5000 or counter % check_frequency == 0:' holds: the EVs of
\* the working tables are computed and check_equilibrium starts on copies.
CheckDue ==
    /\ pc = "check_test"
    /\ check_due(counter, args.check_frequency)
    /\ \E ev \in {calculate_ev(n, p1_temp, p2_temp)} :
        ev_1' = ev[1] /\ ev_2' = ev[2]
    /\ pc' = "best_response_1"
    /\ p1_best_response' = p1_temp
    /\ strategy_update' = p1_temp
    /\ rounds' = 0
    /\ upd_counter' = 0
    /\ hand' = 0
    /\ action_row' = 0
    /\ UNCHANGED <<n, args, ownVars, result, initVars, p1_temp, p2_temp, counter,
                   equilibria_found, output_list, p2_best_response, calls>>

\* The condition fails: `counter += 1' and the next iteration.
CheckNotDue ==
    /\ pc = "check_test"
    /\ ~check_due(counter, args.check_frequency)
    /\ counter' = counter + 1
    /\ pc' = "while"
    /\ UNCHANGED <<n, args, ownVars, result, initVars, updateVars, p1_temp, p2_temp,
                   equilibria_found, output_list, hand, action_row, ev_1,
                   ev_2, p1_best_response, p2_best_response, calls>>

\* The arguments of a best-response call with a budget of one round.
best_response_args_one_round(strategy_fixed, player) ==
    UpdateArgs(n, 1, strategy_fixed, action_row, hand, action_row + 1, player,
               BestResponseStep)

\* The arguments of a best-response updater call.
BestResponseArgs(strategy_fixed, player) ==
    UpdateArgs(n, BestResponseRounds, strategy_fixed, action_row, hand,
               action_row + 1, player, BestResponseStep)

\* Whether a round with outcome r is the last of the updater call under way.
CallEnds(c, r) ==
    upd_counter = c.k \/ r.stop \/ rounds + 1 >= c.k

\* The cell after <<hand, action>> in `for hand in range(self.n): for action
\* in [0, 3]'; after the last one the Player 2 search starts on a copy.
BestResponse1Advance(table) ==
    /\ rounds' = 0
    /\ upd_counter' = 0
    /\ p1_best_response' = table
    /\ IF action_row = 0
       THEN /\ action_row' = 3
            /\ strategy_update' = table
            /\ UNCHANGED <<pc, hand, p2_best_response>>
       ELSE IF hand + 1 < n
            THEN /\ hand' = hand + 1
                 /\ action_row' = 0
                 /\ strategy_update' = table
                 /\ UNCHANGED <<pc, p2_best_response>>
            ELSE /\ pc' = "best_response_2"
                 /\ hand' = 0
                 /\ action_row' = 0
                 /\ p2_best_response' = p2_temp
                 /\ strategy_update' = p2_temp

\* One round of update_probability(n, 9999, p1_best_response, player2, ...);
\* the call's last round rebinds p1_best_response.
BestResponse1Round ==
    /\ pc = "best_response_1"
    /\ ~(hand = 0 /\ action_row = 3)
    /\ ~(hand = n - 1 /\ action_row = 3)
    /\ \E r \in {update_round(BestResponseArgs(p2_temp, 1), strategy_update)} :
        IF CallEnds(BestResponseArgs(p2_temp, 1), r)
        THEN BestResponse1Advance(r.strategy_update)
        ELSE /\ strategy_update' = r.strategy_update
             /\ rounds' = rounds + 1
             /\ upd_counter' = upd_counter + 1
             /\ UNCHANGED <<pc, hand, action_row, p1_best_response,
                            p2_best_response>>
    /\ UNCHANGED <<n, args, ownVars, result, initVars, p1_temp, p2_temp, counter,
                   equilibria_found, output_list, ev_1, ev_2, calls>>

BestResponse1Skip ==
    /\ pc = "best_response_1"
    /\ (hand = 0 /\ action_row = 3) \/ (hand = n - 1 /\ action_row = 3)
    /\ BestResponse1Advance(p1_best_response)
    /\ UNCHANGED <<n, args, ownVars, result, initVars, p1_temp, p2_temp, counter,
                   equilibria_found, output_list, ev_1, ev_2, calls>>

\* The cell after <<hand, action>> in `for hand in range(4): for action in
\* [0, 2]'; after the last one the two best-response EVs are compared.
BestResponse2Advance(table) ==
    /\ rounds' = 0
    /\ upd_counter' = 0
    /\ p2_best_response' = table
    /\ strategy_update' = table
    /\ IF action_row = 0
       THEN action_row' = 2 /\ UNCHANGED <<pc, hand>>
       ELSE IF hand + 1 < 4
            THEN hand' = hand + 1 /\ action_row' = 0 /\ UNCHANGED pc
            ELSE pc' = "check_result" /\ UNCHANGED <<hand, action_row>>

\* One round of update_probability(n, 9999, p2_best_response, player1, ...),
\* or its IndexError at a column the table does not have.
BestResponse2Round ==
    /\ pc = "best_response_2"
    /\ ~(hand = 0 /\ action_row = 2)
    /\ IF hand >= n
       THEN /\ pc' = "IndexError"
            /\ UNCHANGED <<updateVars, hand, action_row, p2_best_response>>
       ELSE \E r \in {update_round(BestResponseArgs(p1_temp, 2),
                                   strategy_update)} :
                IF CallEnds(BestResponseArgs(p1_temp, 2), r)
                THEN BestResponse2Advance(r.strategy_update)
                ELSE /\ strategy_update' = r.strategy_update
                     /\ rounds' = rounds + 1
                     /\ upd_counter' = upd_counter + 1
                     /\ UNCHANGED <<pc, hand, action_row, p2_best_response>>
    /\ UNCHANGED <<n, args, ownVars, result, initVars, p1_temp, p2_temp, counter,
                   equilibria_found, output_list, ev_1, ev_2,
                   p1_best_response, calls>>

BestResponse2Skip ==
    /\ pc = "best_response_2"
    /\ hand = 0 /\ action_row = 2
    /\ BestResponse2Advance(p2_best_response)
    /\ UNCHANGED <<n, args, ownVars, result, initVars, p1_temp, p2_temp, counter,
                   equilibria_found, output_list, ev_1, ev_2,
                   p1_best_response, calls>>

abs(x) == IF x < 0 THEN 0 - x ELSE x

\* check_equilibrium's return value, the two best responses given:
\* exploitability_1 <= epsilon_threshold and exploitability_2 <= epsilon_threshold,
\* in units of 1 / EVUnit(n).
exploitability_ok(nn, ev_old_1, ev_old_2, player1, player2, br1, br2) ==
    /\ abs(ev_old_1 - calculate_ev(nn, br1, player2)[1]) * Scale
            <= EpsilonThreshold * EVUnit(nn)
    /\ abs(ev_old_2 - calculate_ev(nn, player1, br2)[2]) * Scale
            <= EpsilonThreshold * EVUnit(nn)

is_equilibrium ==
    exploitability_ok(n, ev_1, ev_2, p1_temp, p2_temp, p1_best_response,
                      p2_best_response)

\* The record solve appends.
equilibrium_record_swapped(iteration, player1, player2, ev_player1, ev_player2) ==
    [iteration |-> iteration, player1_strategy |-> player1,
     player2_strategy |-> player2, ev_player1 |-> ev_player2,
     ev_player2 |-> ev_player1]

equilibrium_record(iteration, player1, player2, ev_player1, ev_player2) ==
    [iteration |-> iteration, player1_strategy |-> player1,
     player2_strategy |-> player2, ev_player1 |-> ev_player1,
     ev_player2 |-> ev_player2]

\* check_equilibrium returns True: the record is appended, and the third
\* record breaks out of the loop to `return output_list'.
CheckPass ==
    /\ pc = "check_result"
    /\ is_equilibrium
    /\ output_list' = Append(output_list,
            equilibrium_record(counter, p1_temp, p2_temp, ev_1, ev_2))
    /\ equilibria_found' = equilibria_found + 1
    /\ IF equilibria_found + 1 >= 3
       THEN pc' = "returned" /\ result' = output_list' /\ UNCHANGED counter
       ELSE pc' = "while" /\ counter' = counter + 1 /\ UNCHANGED result
    /\ UNCHANGED <<n, args, ownVars, initVars, updateVars, p1_temp, p2_temp, hand,
                   action_row, ev_1, ev_2, p1_best_response, p2_best_response,
                   calls>>

\* check_equilibrium returns False: `counter += 1' and the next iteration.
CheckFail ==
    /\ pc = "check_result"
    /\ ~is_equilibrium
    /\ counter' = counter + 1
    /\ pc' = "while"
    /\ UNCHANGED <<n, args, ownVars, result, initVars, updateVars, p1_temp, p2_temp,
                   equilibria_found, output_list, hand, action_row, ev_1,
                   ev_2, p1_best_response, p2_best_response, calls>>

NextSolve ==
    \/ WhileEnter
    \/ WhileExit
    \/ Stage1Update
    \/ Player2Update
    \/ Player2Skip
    \/ Player2IndexError
    \/ Stage3Update
    \/ Stage3Skip
    \/ CheckDue
    \/ CheckNotDue
    \/ BestResponse1Round
    \/ BestResponse1Skip
    \/ BestResponse2Round
    \/ BestResponse2Skip
    \/ CheckPass
    \/ CheckFail

SpecSolve == InitSolve /\ [][NextSolve]_vars

\* C6: in every state solve reaches, the boundary cells of the working tables
\* have the values of the starting tables: Player 1 rows 3 and 4 at the
\* lowest and the highest card, Player 2 rows 2 and 3 at the lowest card,
\* Player 2 rows 0 to 3 at the highest card.
C6_BoundaryCellsUnchanged ==
    /\ \A r \in {3, 4}, c \in {0, n - 1} :
        p1_temp[r][c] = args.p1_start[r][c]
    /\ \A r \in {2, 3} : p2_temp[r][0] = args.p2_start[r][0]
    /\ \A r \in 0 .. 3 : p2_temp[r][n - 1] = args.p2_start[r][n - 1]

\* The same for the 5-card deck alone.
BoundaryCellsUnchangedFiveCards == n = DefaultN => C6_BoundaryCellsUnchanged

\* C9: every record of the returned list stores the EV pair that calculate_ev
\* gives for the record's own two tables, and no step of solve changes or
\* drops a record already in the list.
C9_RecordsConsistent ==
    /\ [](pc = "returned" =>
            \A i \in 1 .. Len(result) :
                <<result[i].ev_player1, result[i].ev_player2>>
                    = calculate_ev(n, result[i].player1_strategy,
                                   result[i].player2_strategy))
    /\ [][/\ Len(output_list') >= Len(output_list)
          /\ \A i \in 1 .. Len(output_list) :
                output_list'[i] = output_list[i]]_vars

\* C9 witness: solve has returned two or more records, appended in different
\* iterations with different tables and different EVs.
C9_Witness ==
    /\ pc = "returned"
    /\ Len(result) >= 2
    /\ result[1].iteration < result[2].iteration
    /\ result[1].player2_strategy # result[2].player2_strategy
    /\ result[1].ev_player1 # result[2].ev_player1
    /\ result[1].ev_player1 # 0

\* C10: solve never ends in an error, and the list it returns has at most 3
\* records, with strictly increasing iteration indices in 1 .. max_iterations;
\* it returns with the third record just appended or with counter beyond
\* max_iterations and fewer than 3 records.
C10_ReturnsAtMostThreeRecords ==
    /\ pc # "IndexError"
    /\ pc = "returned" =>
        /\ Len(result) <= 3
        /\ \A i \in 1 .. Len(result) :
            result[i].iteration \in 1 .. args.max_iterations
        /\ \A i, j \in 1 .. Len(result) :
            i < j => result[i].iteration < result[j].iteration
        /\ \/ Len(result) = 3 /\ result[3].iteration = counter
           \/ Len(result) < 3 /\ counter > args.max_iterations

\* The same for decks of 4 and more cards.
ReturnsAtMostThreeRecordsFourCards == n >= 4 => C10_ReturnsAtMostThreeRecords

(***************************************************************************)
(* SpecSolveLate: solve beyond its 5000th iteration                        *)
(***************************************************************************)
LateIterations == 5001
LateCheckFrequency == 5000

\* A 3-card run of one iteration, and a 5-card run from the tables close to
\* an equilibrium that is checked at iteration 5000 and at every one after.
InitSolveLate ==
    /\ pc = "while"
    /\ NoOwnership
    /\ n \in {3, DefaultN}
    /\ \E start \in StartTables(n) :
        /\ n = DefaultN => start = <<NearEquilibrium1, NearEquilibrium2>>
        /\ args = [p1_start |-> start[1], p2_start |-> start[2],
                   max_iterations |->
                        IF n = DefaultN THEN LateIterations ELSE 1,
                   epsilon |-> IF n = DefaultN THEN 2 ELSE 1,
                   check_frequency |->
                        IF n = DefaultN THEN LateCheckFrequency ELSE 1]
    /\ result = <<>>
    /\ output_list = <<>>
    /\ p1_temp = args.p1_start
    /\ p2_temp = args.p2_start
    /\ counter = 1
    /\ equilibria_found = 0
    /\ hand = 0 /\ action_row = 0 /\ ev_1 = 0 /\ ev_2 = 0
    /\ p1_best_response = <<>> /\ p2_best_response = <<>> /\ calls = <<>>
    /\ NoInitialize /\ NoUpdate

SpecSolveLate == InitSolveLate /\ [][NextSolve]_vars

\* C11: the checker starts in an iteration exactly when counter > 5000 or
\* counter mod check_frequency = 0; it starts only once the third sweep of the
\* iteration has finished, on the working tables as the sweeps left them and
\* with their EVs; when it has answered, the iteration is over (the counter
\* moves on or solve returns), so it runs at most once per iteration; and
\* every record's iteration index satisfies the condition.
C11_CheckerSchedule ==
    /\ [][pc = "check_test" =>
            ((pc' = "best_response_1")
                <=> (counter > 5000 \/ counter % args.check_frequency = 0))]_vars
    /\ [][(pc' = "best_response_1" /\ pc # "best_response_1") =>
            /\ pc = "check_test"
            /\ calls # <<>> /\ calls[Len(calls)] = <<1, 3, n - 2>>
            /\ UNCHANGED <<p1_temp, p2_temp, counter>>
            /\ p1_best_response' = p1_temp
            /\ <<ev_1', ev_2'>> = calculate_ev(n, p1_temp, p2_temp)]_vars
    /\ [][(pc' = "check_test" /\ pc # "check_test") => pc = "stage3"]_vars
    /\ [][pc = "check_result" =>
            \/ pc' = "while" /\ counter' = counter + 1
            \/ pc' = "returned" /\ UNCHANGED counter]_vars
    /\ [](\A i \in 1 .. Len(output_list) :
            \/ output_list[i].iteration > 5000
            \/ output_list[i].iteration % args.check_frequency = 0)

\* C11 witness: a record of an iteration beyond the 5000th that is not a
\* multiple of check_frequency, in a run whose earlier iterations were not
\* checked.
C11_Witness ==
    /\ output_list # <<>>
    /\ output_list[1].iteration > 5000
    /\ output_list[1].iteration % args.check_frequency # 0
    /\ args.check_frequency > 1

(***************************************************************************)
(* Table objects.  A DataFrame is an object: `.copy()' creates a new one,  *)
(* `x = y' binds a second name to the same one, and `.iloc[r, c] = v'      *)
(* changes the object under every name bound to it.  heap holds the live   *)
(* objects and refs the names of the three frames (solve,                  *)
(* check_equilibrium, update_probability) and of their caller.             *)
(***************************************************************************)
MaxObjects == 12

ObjectIds == 1 .. MaxObjects

\* The caller's two tables, then the names of solve, of check_equilibrium
\* and of update_probability.
CalleeNames == {"strategy_update", "strategy_increase", "strategy_decrease"}

Names ==
    {"caller_1", "caller_2", "p1_temp", "p2_temp", "record_1", "record_2",
     "player1", "player2", "p1_best_response", "p2_best_response",
     "returned", "strategy_fixed"} \cup CalleeNames

\* The objects some name is bound to; 0 stands for an unbound name.
live(r) == {r[name] : name \in Names} \ {0}

\* An unreferenced object is freed.
collect(h, r) == [i \in ObjectIds |-> IF i \in live(r) THEN h[i] ELSE <<>>]

\* The object a new DataFrame gets: the first free one.
new_object(r) ==
    CHOOSE i \in ObjectIds \ live(r) : \A j \in ObjectIds \ live(r) : i <= j

\* `src.copy()' with no object created: the object of src itself.
table_copy_alias(r, src) == r[src]

\* The object of `src.copy()'.
table_copy(r, src) == new_object(r)

\* The heap once object `id' holds a copy of the table of `src'.
copied(h, r, src, id) == [h EXCEPT ![id] = h[r[src]]]

\* The steps of a program: a copy `dst = src.copy()', a binding `dst = src',
\* a call `_, dst = update_probability(n, k, src, fixed, row, column,
\* row + 1, player, epsilon)', the EV pair of two tables, the return of
\* check_equilibrium and the record solve appends when it returned True.
Step(op, dst, src, fixed, player, row, column, k, epsilon) ==
    [op |-> op, dst |-> dst, src |-> src, fixed |-> fixed, player |-> player,
     row |-> row, column |-> column, k |-> k, epsilon |-> epsilon]

Copy(dst, src) == Step("copy", dst, src, "", 0, 0, 0, 0, 0)
Bind(dst, src) == Step("bind", dst, src, "", 0, 0, 0, 0, 0)
EVs(src, fixed) == Step("ev", "", src, fixed, 0, 0, 0, 0, 0)
CheckReturn == Step("check_return", "", "", "", 0, 0, 0, 0, 0)
Record == Step("record", "", "", "", 0, 0, 0, 0, 0)

\* The cells <<hand, action>> of `for hand in range(hands): for action in
\* [0, second]', in order.
Cells(hands, second) ==
    [i \in 1 .. 2 * hands |-> <<(i - 1) \div 2, second * ((i - 1) % 2)>>]

\* Player 1's cells in check_equilibrium: rows [0, 3] of every hand, but for
\* row 3 of hand 0 and of hand n - 1.
Player1Cells(nn) ==
    SelectSeq(Cells(nn, 3),
              LAMBDA cell : ~(cell[1] = 0 /\ cell[2] = 3)
                            /\ ~(cell[1] = nn - 1 /\ cell[2] = 3))

\* Player 2's cells in solve and in check_equilibrium: rows [0, 2] of
\* range(4), but for row 2 of hand 0.
Player2Cells ==
    SelectSeq(Cells(4, 2), LAMBDA cell : ~(cell[1] = 0 /\ cell[2] = 2))

\* The updater calls of a list of cells on the table `own' of `player'.
CellCalls(cells, own, fixed, player, k, epsilon) ==
    [i \in 1 .. Len(cells) |->
        Step("call", own, own, fixed, player, cells[i][2], cells[i][1], k,
             epsilon)]

\* The three sweeps of one iteration of solve.
SweepCalls(nn, epsilon) ==
    CellCalls([i \in 1 .. nn |-> <<i - 1, 0>>], "p1_temp", "p2_temp", 1, 1,
              epsilon)
    \o CellCalls(Player2Cells, "p2_temp", "p1_temp", 2, 1, epsilon)
    \o CellCalls(SelectSeq([i \in 1 .. nn |-> <<i - 1, 3>>],
                           LAMBDA cell : cell[1] # 0 /\ cell[1] # nn - 1),
                 "p1_temp", "p2_temp", 1, 1, epsilon)

\* check_equilibrium(p1, p2, ev_1, ev_2).
CheckProgram(nn, p1, p2) ==
    <<Bind("player1", p1), Bind("player2", p2),
      Copy("p1_best_response", "player1")>>
    \o CellCalls(Player1Cells(nn), "p1_best_response", "player2", 1,
                 BestResponseRounds, BestResponseStep)
    \o <<Copy("p2_best_response", "player2")>>
    \o CellCalls(Player2Cells, "p2_best_response", "player1", 2,
                 BestResponseRounds, BestResponseStep)
    \o <<CheckReturn>>

\* solve(p1_start, p2_start, max_iterations = 1, epsilon, check_frequency = 1).
SolveProgram(nn, epsilon) ==
    <<Copy("p1_temp", "caller_1"), Copy("p2_temp", "caller_2")>>
    \o SweepCalls(nn, epsilon)
    \o <<EVs("p1_temp", "p2_temp")>>
    \o CheckProgram(nn, "p1_temp", "p2_temp")
    \o <<Record>>

\* The program of the operation under way.
Program ==
    CASE args.operation = "update_probability" ->
            <<Step("call", "returned", "caller_1", "caller_2", args.player, args.row,
                   args.column, args.k, args.epsilon)>>
      [] args.operation = "check_equilibrium" ->
            <<EVs("caller_1", "caller_2")>>
            \o CheckProgram(n, "caller_1", "caller_2")
      [] args.operation = "solve" -> SolveProgram(n, args.epsilon)

(***************************************************************************)
(* SpecOwnership: update_probability, check_equilibrium and solve run on   *)
(* the caller's two table objects, one statement that creates, binds or    *)
(* writes an object at a time                                              *)
(***************************************************************************)
OwnershipStep == 30

ownRest ==
    <<n, args, initVars, strategy_update, p1_temp, p2_temp, counter,
      equilibria_found, output_list, hand, action_row, p1_best_response,
      p2_best_response, calls>>

\* The caller holds object 1 (its Player 1 table) and object 2 (its Player 2
\* table) and calls one of the three operations on them.
InitOwnership ==
    /\ pc = "own_next"
    /\ n \in {2, 4, DefaultN}
    /\ \/ /\ n = 2
          /\ \E player \in {1, 2} :
              \E row \in PrimaryRows(player), column \in Columns(n),
                 k \in {1, 3},
                 t1 \in TablesOver1(n, IF player = 1 THEN {0, OwnershipStep}
                                                     ELSE {0, Scale}),
                 t2 \in TablesOver2(n, IF player = 2 THEN {0, OwnershipStep}
                                                     ELSE {0, Scale}) :
                  args = [operation |-> "update_probability",
                          table_1 |-> IF player = 1 THEN t1 ELSE t2,
                          table_2 |-> IF player = 1 THEN t2 ELSE t1,
                          player |-> player, row |-> row, column |-> column,
                          k |-> k, epsilon |-> OwnershipStep]
       \/ /\ n > 2
          /\ \E operation \in {"check_equilibrium", "solve"} :
              \E start \in StartTables(n) :
                  /\ n = DefaultN
                        => start = <<NearEquilibrium1, NearEquilibrium2>>
                  /\ args = [operation |-> operation, table_1 |-> start[1],
                             table_2 |-> start[2], epsilon |-> 1]
    /\ heap = [i \in ObjectIds |-> IF i = 1 THEN args.table_1
                                   ELSE IF i = 2 THEN args.table_2 ELSE <<>>]
    /\ refs = [name \in Names |-> IF name = "caller_1" THEN 1
                                  ELSE IF name = "caller_2" THEN 2 ELSE 0]
    /\ ip = 1
    /\ result = <<>>
    /\ NoInitialize /\ NoUpdate /\ NoSolve

\* Where control goes after the statement at ip.
next_pc == IF ip + 1 > Len(Program) THEN "own_done" ELSE "own_next"

\* `dst = src.copy()'
OwnCopy ==
    /\ pc = "own_next" /\ Program[ip].op = "copy"
    /\ \E id \in {table_copy(refs, Program[ip].src)} :
        /\ refs' = [refs EXCEPT ![Program[ip].dst] = id]
        /\ heap' = collect(copied(heap, refs, Program[ip].src, id), refs')
    /\ ip' = ip + 1
    /\ pc' = next_pc
    /\ UNCHANGED <<ownRest, result, rounds, upd_counter, ev_1, ev_2>>

\* A parameter of check_equilibrium bound to the caller's argument.
OwnBind ==
    /\ pc = "own_next" /\ Program[ip].op = "bind"
    /\ refs' = [refs EXCEPT ![Program[ip].dst] = refs[Program[ip].src]]
    /\ ip' = ip + 1
    /\ pc' = next_pc
    /\ UNCHANGED <<ownRest, heap, result, rounds, upd_counter, ev_1, ev_2>>

\* `ev_1, ev_2 = calculate_ev(p1_temp, p2_temp)'
OwnEVs ==
    /\ pc = "own_next" /\ Program[ip].op = "ev"
    /\ \E ev \in {calculate_ev(n, heap[refs[Program[ip].src]],
                               heap[refs[Program[ip].fixed]])} :
        /\ ev_1' = ev[1]
        /\ ev_2' = ev[2]
    /\ ip' = ip + 1
    /\ pc' = next_pc
    /\ UNCHANGED <<ownRest, heap, refs, result, rounds, upd_counter>>

\* update_probability is entered: its parameters are bound to the caller's
\* objects and line 414 rebinds strategy_update to a copy.
OwnCallBegin ==
    /\ pc = "own_next" /\ Program[ip].op = "call"
    /\ \E bound \in {[refs EXCEPT !["strategy_update"] = refs[Program[ip].src],
                                  !["strategy_fixed"] = refs[Program[ip].fixed]]} :
        \E id \in {table_copy(bound, "strategy_update")} :
            /\ refs' = [bound EXCEPT !["strategy_update"] = id]
            /\ heap' = collect(copied(heap, bound, "strategy_update", id), refs')
    /\ rounds' = 0
    /\ upd_counter' = 0
    /\ pc' = "own_round"
    /\ UNCHANGED <<ownRest, ip, result, ev_1, ev_2>>

\* The arguments of the call at ip.
OwnArgs ==
    UpdateArgs(n, Program[ip].k, heap[refs["strategy_fixed"]], Program[ip].row,
               Program[ip].column, Program[ip].row + 1, Program[ip].player,
               Program[ip].epsilon)

\* The name strategy_update is bound to after lines 462-465.
moved_to(c, r) ==
    IF gt(c.n, r.ev_increase, r.ev_decrease) /\ gt(c.n, r.ev_increase, r.ev_initial)
    THEN "strategy_increase"
    ELSE IF gt(c.n, r.ev_decrease, r.ev_increase)
            /\ gt(c.n, r.ev_decrease, r.ev_initial)
         THEN "strategy_decrease"
         ELSE "strategy_update"

\* The names after the frame of update_probability is left, its result bound
\* to dst.
returned_to(r, dst) ==
    [name \in Names |->
        IF name = dst THEN r["strategy_update"]
        ELSE IF name \in CalleeNames \cup {"strategy_fixed"} THEN 0
        ELSE r[name]]

\* One round of update_probability: the two candidates are copies written in
\* place (lines 425-440), strategy_update is rebound to the better one (lines
\* 462-465); the round that breaks, or the last of range(k), returns.
OwnRound ==
    /\ pc = "own_round"
    /\ \E c \in {OwnArgs} :
        \E id_inc \in {table_copy(refs, "strategy_update")} :
        \E r1 \in {[refs EXCEPT !["strategy_increase"] = id_inc]} :
        \E h1 \in {copied(heap, refs, "strategy_update", id_inc)} :
        \E h2 \in {[h1 EXCEPT ![id_inc] = increase(c, h1[id_inc])]} :
        \E id_dec \in {table_copy(r1, "strategy_update")} :
        \E r2 \in {[r1 EXCEPT !["strategy_decrease"] = id_dec]} :
        \E h3 \in {copied(h2, r1, "strategy_update", id_dec)} :
        \E h4 \in {[h3 EXCEPT ![id_dec] = decrease(c, h3[id_dec])]} :
        \E r \in {update_evs(c, heap[refs["strategy_update"]], h4[id_inc],
                             h4[id_dec])} :
        \E r3 \in {[r2 EXCEPT !["strategy_update"] = r2[moved_to(c, r)]]} :
            IF upd_counter = c.k \/ r.stop \/ rounds + 1 >= c.k
            THEN /\ refs' = returned_to(r3, Program[ip].dst)
                 /\ heap' = collect(h4, refs')
                 /\ rounds' = 0
                 /\ upd_counter' = 0
                 /\ ip' = ip + 1
                 /\ pc' = next_pc
            ELSE /\ refs' = r3
                 /\ heap' = collect(h4, refs')
                 /\ rounds' = rounds + 1
                 /\ upd_counter' = upd_counter + 1
                 /\ UNCHANGED <<ip, pc>>
    /\ UNCHANGED <<ownRest, result, ev_1, ev_2>>

\* check_equilibrium returns (lines 649-658) and its frame is left.
OwnCheckReturn ==
    /\ pc = "own_next" /\ Program[ip].op = "check_return"
    /\ result' = <<exploitability_ok(n, ev_1, ev_2, heap[refs["player1"]],
                                     heap[refs["player2"]],
                                     heap[refs["p1_best_response"]],
                                     heap[refs["p2_best_response"]])>>
    /\ refs' = [refs EXCEPT !["player1"] = 0, !["player2"] = 0,
                            !["p1_best_response"] = 0,
                            !["p2_best_response"] = 0]
    /\ heap' = collect(heap, refs')
    /\ ip' = ip + 1
    /\ pc' = next_pc
    /\ UNCHANGED <<ownRest, rounds, upd_counter, ev_1, ev_2>>

\* `if is_equilibrium: output_list.append({... p1_temp.copy(),
\* p2_temp.copy() ...})'
OwnRecord ==
    /\ pc = "own_next" /\ Program[ip].op = "record"
    /\ IF result[1]
       THEN \E id_1 \in {table_copy(refs, "p1_temp")} :
            \E r1 \in {[refs EXCEPT !["record_1"] = id_1]} :
            \E h1 \in {copied(heap, refs, "p1_temp", id_1)} :
            \E id_2 \in {table_copy(r1, "p2_temp")} :
                /\ refs' = [r1 EXCEPT !["record_2"] = id_2]
                /\ heap' = collect(copied(h1, r1, "p2_temp", id_2), refs')
       ELSE UNCHANGED <<heap, refs>>
    /\ ip' = ip + 1
    /\ pc' = next_pc
    /\ UNCHANGED <<ownRest, result, rounds, upd_counter, ev_1, ev_2>>

NextOwnership ==
    \/ OwnCopy
    \/ OwnBind
    \/ OwnEVs
    \/ OwnCallBegin
    \/ OwnRound
    \/ OwnCheckReturn
    \/ OwnRecord

SpecOwnership == InitOwnership /\ [][NextOwnership]_vars

\* The names of the callers of update_probability: every name but its own
\* three locals (its parameter strategy_fixed is the caller's object).
CallerNames == Names \ CalleeNames

\* C12: no core operation writes a table owned by its caller.  The two tables
\* the caller passed to update_probability, to check_equilibrium or to solve
\* hold at every moment what they held at the call; and no step of any
\* operation changes an object that a name outside update_probability's
\* locals is bound to before and after the step (the arguments of every
\* updater call and the two tables supplied to check_equilibrium included).
C12_CallerTablesUntouched ==
    /\ [](pc \in {"own_next", "own_round", "own_done"}
            => heap[1] = args.table_1 /\ heap[2] = args.table_2)
    /\ [][\A name \in CallerNames :
            (refs[name] # 0 /\ refs[name] \in live(refs'))
                => heap'[refs[name]] = heap[refs[name]]]_vars

\* C12 witness: solve has returned a record, its working table differs from
\* the caller's p1_start, which still holds what was passed in.
C12_Witness ==
    /\ pc = "own_done" /\ args.operation = "solve"
    /\ refs["record_1"] # 0
    /\ heap[refs["p1_temp"]] # heap[1]
    /\ heap[1] = args.table_1 /\ heap[2] = args.table_2

(***************************************************************************)
(* Valid tables, and solve started from tables that are not                *)
(***************************************************************************)
\* t has rows 0 .. last of n columns each.
shape_valid(nn, t, last) ==
    /\ DOMAIN t = 0 .. last
    /\ \A r \in DOMAIN t : DOMAIN t[r] = Columns(nn)

\* A valid starting table of Player 1 (5 x n) and of Player 2 (4 x n).
ValidStart1(nn, t) == shape_valid(nn, t, 4) /\ ValidP1(t)
ValidStart2(nn, t) == shape_valid(nn, t, 3) /\ ValidP2(t)

\* The table t with the value v in cell (row, column).
with_cell(t, row, column, v) == [t EXCEPT ![row][column] = v]

\* The Player 1 table t with a sixth row, of zeros.
with_extra_row(nn, t) ==
    [r \in 0 .. 5 |-> IF r <= 4 THEN t[r] ELSE [c \in Columns(nn) |-> 0]]

\* Pairs of starting tables of which one is invalid: a 6 x n Player 1 table,
\* a row pair that sums to 0.8, a cell of 1.2 with its complement -0.2.
InvalidStartTables(nn) ==
    IF nn = DefaultN
    THEN {<<with_extra_row(nn, NearEquilibrium1), NearEquilibrium2>>,
          <<with_cell(HalfTable1(nn), 1, 0, 30), HalfTable2(nn)>>,
          <<HalfTable1(nn),
            with_cell(with_cell(HalfTable2(nn), 0, 1, 120), 1, 1, -20)>>}
    ELSE {<<with_cell(HalfTable1(nn), 1, 0, 30), HalfTable2(nn)>>}

InvalidIterations == 2

\* solve called with an invalid starting table: the state after lines
\* 512-523, which hold no check of the tables.
InitSolveInvalid ==
    /\ pc = "while"
    /\ NoOwnership
    /\ n \in {3, DefaultN}
    /\ \E start \in InvalidStartTables(n),
          max_iterations \in 1 .. InvalidIterations,
          check_frequency \in 1 .. MaxCheckFrequency :
            args = [p1_start |-> start[1], p2_start |-> start[2],
                    max_iterations |-> max_iterations, epsilon |-> 1,
                    check_frequency |-> check_frequency]
    /\ result = <<>>
    /\ output_list = <<>>
    /\ p1_temp = args.p1_start
    /\ p2_temp = args.p2_start
    /\ counter = 1
    /\ equilibria_found = 0
    /\ hand = 0 /\ action_row = 0
    /\ ev_1 = 0 /\ ev_2 = 0
    /\ p1_best_response = <<>> /\ p2_best_response = <<>>
    /\ calls = <<>>
    /\ NoInitialize /\ NoUpdate

SpecSolveInvalid == InitSolveInvalid /\ [][NextSolve]_vars

\* C13: solve rejects an invalid starting table before any computation
\* begins: when a supplied table has the wrong shape, a cell outside [0,1] or
\* a complementary pair not summing to 1, solve makes no updater call and no
\* EV call, and returns no list.
C13_InvalidStartRejected ==
    ~(ValidStart1(n, args.p1_start) /\ ValidStart2(n, args.p2_start))
        => /\ calls = <<>>
           /\ ev_1 = 0 /\ ev_2 = 0
           /\ pc # "returned"

\* The cell a call of update_probability works on, in the table t.
cell(c, t) == t[c.row1][c.column]

\* C14: in each round of update_probability on a valid table, the table moves
\* to the increase candidate iff that candidate's EV is strictly greater than
\* both ev_initial and the decrease candidate's EV, to the decrease candidate
\* iff its EV is strictly greater than both ev_initial and the increase
\* candidate's EV, and is left unchanged otherwise; the loop breaks, without
\* moving, exactly when neither candidate's EV strictly exceeds ev_initial; a
\* candidate pinned at its bound carries the sentinel -9999, which is below
\* ev_initial, so it is never selected; and every round that does not break
\* changes the cell.
C14_RoundSelection ==
    [][pc = "update_probability" =>
        \A r \in {update_round(args.c, strategy_update)} :
        \A up \in {increase(args.c, strategy_update)} :
        \A down \in {decrease(args.c, strategy_update)} :
            /\ (strategy_update' = up /\ up # strategy_update)
                <=> (gt(n, r.ev_increase, r.ev_initial)
                        /\ gt(n, r.ev_increase, r.ev_decrease))
            /\ (strategy_update' = down /\ down # strategy_update)
                <=> (gt(n, r.ev_decrease, r.ev_initial)
                        /\ gt(n, r.ev_decrease, r.ev_increase))
            /\ strategy_update' \in {strategy_update, up, down}
            /\ (upd_counter' = upd_counter)
                <=> (~gt(n, r.ev_increase, r.ev_initial)
                        /\ ~gt(n, r.ev_decrease, r.ev_initial))
            /\ upd_counter' = upd_counter => strategy_update' = strategy_update
            /\ cell(args.c, strategy_update) = Scale
                => /\ r.ev_increase = literal(Sentinel)
                   /\ ~gt(n, r.ev_increase, r.ev_initial)
                   /\ cell(args.c, strategy_update') <= Scale
            /\ cell(args.c, strategy_update) = 0
                => /\ r.ev_decrease = literal(Sentinel)
                   /\ ~gt(n, r.ev_decrease, r.ev_initial)
                   /\ cell(args.c, strategy_update') >= 0
            /\ upd_counter' # upd_counter
                => cell(args.c, strategy_update') # cell(args.c, strategy_update)
      ]_vars

\* C14 witness: a call of three rounds at most has returned after two: the
\* first round moved the cell and did not break, the second broke without
\* moving.
C14_Witness ==
    /\ pc = "update_probability_returned"
    /\ args.c.k = 3 /\ rounds = 2 /\ upd_counter = 1
    /\ cell(args.c, strategy_update) # cell(args.c, args.strategy_update)

(***************************************************************************)
(* Validity of the tables solve and check_equilibrium work on              *)
(***************************************************************************)
\* The cell at <<hand, action_row>> is one the loop under way passes over.
skipped ==
    \/ pc \in {"stage3", "best_response_1"}
        /\ action_row = 3 /\ hand \in {0, n - 1}
    \/ pc \in {"player2", "best_response_2"}
        /\ ((hand = 0 /\ action_row = 2) \/ hand >= n)

\* The updater call the next step runs a round of: its arguments and the
\* table that round starts from; none where a cell is passed over and outside
\* the sweeps.
NextCall ==
    IF skipped THEN {}
    ELSE CASE pc \in {"stage1", "stage3"} ->
                {<<SweepArgs(p2_temp, 1), p1_temp>>}
           [] pc = "player2" -> {<<SweepArgs(p1_temp, 2), p2_temp>>}
           [] pc = "best_response_1" ->
                {<<BestResponseArgs(p2_temp, 1), strategy_update>>}
           [] pc = "best_response_2" ->
                {<<BestResponseArgs(p1_temp, 2), strategy_update>>}
           [] OTHER -> {}

\* A valid table of the given player that has Player 1's starting row 2.
valid_for(player, t) ==
    IF player = 1
    THEN shape_valid(n, t, 4) /\ ValidP1(t) /\ t[2] = args.p1_start[2]
    ELSE shape_valid(n, t, 3) /\ ValidP2(t)

\* The candidates of a round are valid, an increment is clamped to 1 and a
\* decrement to 0.
candidates_valid(c, su) ==
    /\ valid_for(c.player, increase(c, su))
    /\ valid_for(c.player, decrease(c, su))
    /\ cell(c, increase(c, su))
        = IF cell(c, su) + c.epsilon > Scale THEN Scale
          ELSE cell(c, su) + c.epsilon
    /\ cell(c, decrease(c, su))
        = IF cell(c, su) - c.epsilon < 0 THEN 0 ELSE cell(c, su) - c.epsilon

\* C15: validity of the working tables is an invariant of solve.  Started
\* from valid tables, after every updater call of every sweep of every
\* iteration, and for every candidate and best-response table the checker
\* builds, all entries are in [0,1], Player 1 has row0 + row1 = 1 and
\* row3 + row4 = 1 and Player 2 has row0 + row1 = 1 and row2 + row3 = 1 in
\* every column, Player 1's row 2 is the starting one, and increments are
\* clamped to 1 and decrements to 0.
C15_WorkingTablesValid ==
    /\ valid_for(1, p1_temp)
    /\ valid_for(2, p2_temp)
    /\ p1_best_response # <<>> => valid_for(1, p1_best_response)
    /\ p2_best_response # <<>> => valid_for(2, p2_best_response)
    /\ pc = "best_response_1" => valid_for(1, strategy_update)
    /\ pc = "best_response_2" => valid_for(2, strategy_update)
    /\ \A call \in NextCall : candidates_valid(call[1], call[2])
    /\ \A i \in DOMAIN output_list :
        /\ valid_for(1, output_list[i].player1_strategy)
        /\ valid_for(2, output_list[i].player2_strategy)

\* C15 witness: a sweep has changed Player 1's table, and the call solve makes
\* next builds an increase candidate that overshoots 1 and is clamped.
C15_Witness ==
    /\ pc = "player2"
    /\ p1_temp # args.p1_start
    /\ \E call \in NextCall :
        /\ cell(call[1], call[2]) < Scale
        /\ cell(call[1], call[2]) + call[1].epsilon > Scale
        /\ cell(call[1], increase(call[1], call[2])) = Scale

(***************************************************************************)
(* The order of the updater calls of one iteration                         *)
(***************************************************************************)
\* The calls <<player, row, hand>> of one iteration for an n-card deck, hands
\* counted from 0: Player 1 row 0 of every card; Player 2, for every card but
\* the top one, row 0 and then row 2, row 2 left out at the lowest card;
\* Player 1 row 3 of every card but the lowest and the highest.
SweepOrder(nn) ==
    [i \in 1 .. nn |-> <<1, 0, i - 1>>]
    \o SelectSeq([i \in 1 .. 2 * (nn - 1) |->
                    <<2, 2 * ((i - 1) % 2), (i - 1) \div 2>>],
                 LAMBDA call : ~(call[2] = 2 /\ call[3] = 0))
    \o [i \in 1 .. nn - 2 |-> <<1, 3, i>>]

\* s is a prefix of t.
IsPrefix(s, t) == Len(s) <= Len(t) /\ s = SubSeq(t, 1, Len(s))

\* The calls of the iteration under way are the first calls of the order,
\* and all of it once the sweeps are over.
calls_in_order ==
    /\ IsPrefix(calls, SweepOrder(n))
    /\ pc \in {"check_test", "best_response_1", "best_response_2",
               "check_result"} => calls = SweepOrder(n)

\* C16: for every deck size n, each solve iteration issues its updater calls
\* in exactly this order: (a) Player 1 row0/row1 for every card 1..n; (b) for
\* each Player 2 card except the top card, ascending, row0/row1 then
\* row2/row3, row2/row3 skipped at the lowest card; (c) Player 1 row3/row4
\* for every card except the lowest and the highest; and no other cell is
\* passed to the updater.
C16_SweepOrder ==
    pc \in {"stage1", "player2", "stage3", "check_test", "best_response_1",
            "best_response_2", "check_result", "IndexError"}
        => calls_in_order

\* With the 5-card deck the calls of every iteration are in that order.
SweepOrderFiveCards == (n = DefaultN) => C16_SweepOrder

(***************************************************************************)
(* check_equilibrium as a function of its arguments                        *)
(***************************************************************************)
\* The table after the best-response calls on the cells from the i-th on:
\* each call is update_probability with k = 9999 and step 0.01 against the
\* table strategy_fixed, on the table the call before returned.
RECURSIVE best_response(_, _, _, _, _)
best_response(cells, i, table, strategy_fixed, player) ==
    IF i > Len(cells)
    THEN table
    ELSE CHOOSE found \in
            { best_response(cells, i + 1, returned[2], strategy_fixed, player) :
              returned \in
                {update_probability(
                    UpdateArgs(n, BestResponseRounds, strategy_fixed,
                               cells[i][2], cells[i][1], cells[i][2] + 1,
                               player, BestResponseStep),
                    table)} } : TRUE

\* The cells <<hand, row>> the sweeps of the iteration under way passed to
\* the updater for a player.
swept(player) ==
    {<<calls[i][3], calls[i][2]>> : i \in {j \in DOMAIN calls : calls[j][1] = player}}

\* The elements of a sequence.
Range(s) == {s[i] : i \in DOMAIN s}

\* C17: check_equilibrium(strategy1, strategy2, ev1, ev2, threshold) returns
\* true iff |ev1 - EV1(BR1, strategy2)| <= threshold and
\* |ev2 - EV2(strategy1, BR2)| <= threshold, where BR1 (BR2) comes from a copy
\* of strategy1 (strategy2) by update_probability with max_steps 9999 and
\* step 0.01 over exactly the cells the Solver's sweeps adjust for that
\* player, each against the opponent's original table.
C17_CheckEquilibriumReturn ==
    [][pc = "check_result" =>
        \A br1 \in {best_response(Player1Cells(n), 1, p1_temp, p2_temp, 1)} :
        \A br2 \in {best_response(Player2Cells, 1, p2_temp, p1_temp, 2)} :
            /\ Range(Player1Cells(n)) = swept(1)
            /\ Range(Player2Cells) = swept(2)
            /\ p1_best_response = br1
            /\ p2_best_response = br2
            /\ (Len(output_list') = Len(output_list) + 1)
                <=> /\ abs(ev_1 - calculate_ev(n, br1, p2_temp)[1]) * Scale
                            <= EpsilonThreshold * EVUnit(n)
                    /\ abs(ev_2 - calculate_ev(n, p1_temp, br2)[2]) * Scale
                            <= EpsilonThreshold * EVUnit(n)
      ]_vars

\* C17 witness: both best responses are found, each differs from the table
\* it was searched from, and check_equilibrium is about to return true.
C17_Witness ==
    /\ pc = "check_result"
    /\ p1_best_response # p1_temp
    /\ p2_best_response # p2_temp
    /\ is_equilibrium

\* The distance between two numbers.
distance(a, b) == IF a >= b THEN a - b ELSE b - a

\* C18: for every max_steps >= 1, update_probability performs at least one
\* and at most max_steps rounds, and `counter == max_steps' never holds when
\* a round tests it; with max_steps = 1 it performs exactly one round, so the
\* returned primary cell differs from the input cell by at most step: it is
\* unchanged, moved by exactly step, or clamped to 0 or 1; and the returned
\* EV is the owning player's EV of the table at the start of the last round.
C18_RoundBudget ==
    /\ [](pc = "update_probability" => upd_counter = rounds /\ rounds < args.c.k)
    /\ [](pc = "update_probability_returned" =>
            /\ rounds >= 1 /\ rounds <= args.c.k
            /\ args.c.k = 1 =>
                /\ rounds = 1
                /\ distance(cell(args.c, result[2]),
                            cell(args.c, args.strategy_update)) <= args.c.epsilon
                /\ \/ result[2] = args.strategy_update
                   \/ distance(cell(args.c, result[2]),
                               cell(args.c, args.strategy_update)) = args.c.epsilon
                   \/ cell(args.c, result[2]) \in {0, Scale})
    /\ [][pc' = "update_probability_returned" =>
            result'[1] = player_ev(args.c, strategy_update)]_vars

\* C18 witness: a call with max_steps = 1 has returned after its one round,
\* which moved the cell by exactly step, and the EV it returns is not the EV
\* of the table it returns.
C18_Witness ==
    /\ pc = "update_probability_returned"
    /\ args.c.k = 1 /\ rounds = 1
    /\ distance(cell(args.c, result[2]), cell(args.c, args.strategy_update))
            = args.c.epsilon
    /\ cell(args.c, result[2]) \notin {0, Scale}
    /\ result[1] # player_ev(args.c, result[2])
    /\ result[1] = player_ev(args.c, args.strategy_update)

\* C19: in check_equilibrium, ev_old_1 and ev_old_2 being calculate_ev of the
\* supplied valid tables, each player's best-response EV is never lower than
\* the supplied EV: EV1(BR1, player2) >= ev_old_1 and
\* EV2(player1, BR2) >= ev_old_2; so each exploitability, the absolute
\* difference, equals best-response EV minus supplied EV.
C19_BestResponseNotWorse ==
    pc = "check_result" =>
        \A ev_br \in {<<calculate_ev(n, p1_best_response, p2_temp)[1],
                        calculate_ev(n, p1_temp, p2_best_response)[2]>>} :
            /\ <<ev_1, ev_2>> = calculate_ev(n, p1_temp, p2_temp)
            /\ ev_br[1] >= ev_1
            /\ ev_br[2] >= ev_2
            /\ abs(ev_1 - ev_br[1]) = ev_br[1] - ev_1
            /\ abs(ev_2 - ev_br[2]) = ev_br[2] - ev_2

\* C19 witness: both best responses are found and each has a strictly
\* greater EV than the one supplied.
C19_Witness ==
    /\ pc = "check_result"
    /\ calculate_ev(n, p1_best_response, p2_temp)[1] > ev_1
    /\ calculate_ev(n, p1_temp, p2_best_response)[2] > ev_2

====
